---- MODULE Spec2Model ----
(***************************************************************************)
(* NedParcel: trip construction (shortest-hop BFS over PossibleRoute       *)
(* documents), leg/driver assignment and parcel leg binding, modelled from *)
(* the Express/Mongoose controllers.                                       *)
(*                                                                         *)
(* Collections are modelled as the documents they hold.  A Mongoose        *)
(* ObjectId is a positive integer; NoId stands for undefined/null.         *)
(***************************************************************************)
EXTENDS Integers, Sequences, FiniteSets, TLC

VARIABLES routes, trips, drivers, parcels, resp, inflight

vars == <<routes, trips, drivers, parcels, resp, inflight>>

(***************************************************************************)
(* Bounds of the model.                                                    *)
(***************************************************************************)
NumRanks == 3
MaxEdges == 3
MaxTrips == 2
NumDrivers == 2
MaxParcels == 1
MaxRequests == 2

NoId == 0
\* A field that holds null or is not there at all.
Undef == -1

Ranks == 1..NumRanks
TripIds == 1..MaxTrips
DriverIds == 1..NumDrivers
ParcelIds == 1..MaxParcels
Requests == 1..MaxRequests

(***************************************************************************)
(* Documents.                                                              *)
(***************************************************************************)
\* A slot of a collection that never held a document, and one whose
\* document was deleted (ObjectIds are never reused).
Free == [state |-> "free"]
Deleted == [state |-> "deleted"]

IsStored(doc) == doc.state = "stored"

\* A request slot no link request has used yet.
Idle == [pc |-> "idle"]

\* models/possible-routes.model.ts: one PossibleRoute document.
RouteDoc(id, from, to, distance, price, dSplit, aSplit) ==
  [id |-> id, fromRank |-> from, toRank |-> to, distance |-> distance,
   price |-> price, driverSplit |-> dSplit, associationSplit |-> aSplit]

\* PossibleRoute.findById over the collection (a sequence in insertion order).
RouteIds(edges) == {edges[i].id : i \in 1..Len(edges)}
FindRoute(edges, id) ==
  edges[CHOOSE i \in 1..Len(edges) : edges[i].id = id]

\* JavaScript truthiness of a number.
Truthy(n) == n # 0

\* The response of a handler: HTTP status and the kind of outcome; path is
\* the pathRanks a create request computed.
NoResp == [op |-> "none", status |-> 0, kind |-> "none", path |-> <<>>]

Reply(op, status, kind) ==
  [op |-> op, status |-> status, kind |-> kind, path |-> <<>>]

\* The response to a create-trip request, with the request it answers.
CreateTripReply(status, kind, path, origin, destination) ==
  [op |-> "createTrip", status |-> status, kind |-> kind, path |-> path,
   origin |-> origin, destination |-> destination]

(***************************************************************************)
(* createTrip: adjacency, breadth-first search, path reconstruction.       *)
(***************************************************************************)
RECURSIVE ToRanks(_)
ToRanks(es) ==
  IF es = <<>> THEN <<>> ELSE <<Head(es).toRank>> \o ToRanks(Tail(es))

RECURSIVE FromRanks(_)
FromRanks(es) ==
  IF es = <<>> THEN <<>> ELSE <<Head(es).fromRank>> \o FromRanks(Tail(es))

\* Variant: the adjacency also lists every edge in reverse.
AdjacencyBothWays(edges) ==
  [r \in Ranks |->
     ToRanks(SelectSeq(edges, LAMBDA e : e.fromRank = r))
       \o FromRanks(SelectSeq(edges, LAMBDA e : e.toRank = r))]

\* adjacency[from].push(to) for every edge, in edge order.
Adjacency(edges) ==
  [r \in Ranks |-> ToRanks(SelectSeq(edges, LAMBDA e : e.fromRank = r))]

\* for (const nxt of adjacency[current] || []) { if (!(nxt in prev)) ... }
RECURSIVE VisitNeighbours(_, _, _)
VisitNeighbours(nbrs, current, st) ==
  IF nbrs = <<>> THEN st
  ELSE LET nxt == Head(nbrs) IN
       VisitNeighbours(Tail(nbrs), current,
         IF nxt \in DOMAIN st.prev THEN st
         ELSE [queue |-> Append(st.queue, nxt),
               prev |-> st.prev @@ (nxt :> current)])

\* Variant: an exhausted queue is reported as found (the trip is then built
\* from the goal alone).
RECURSIVE BfsAlwaysFound(_, _, _, _)
BfsAlwaysFound(queue, prev, goal, adjacency) ==
  IF queue = <<>> THEN [found |-> TRUE, prev |-> prev]
  ELSE LET current == Head(queue) IN
       IF current = goal THEN [found |-> TRUE, prev |-> prev]
       ELSE LET st == VisitNeighbours(adjacency[current], current,
                        [queue |-> Tail(queue), prev |-> prev])
            IN BfsAlwaysFound(st.queue, st.prev, goal, adjacency)

\* while (queue.length && !found) { current = queue.shift(); ... }
RECURSIVE Bfs(_, _, _, _)
Bfs(queue, prev, goal, adjacency) ==
  IF queue = <<>> THEN [found |-> FALSE, prev |-> prev]
  ELSE LET current == Head(queue) IN
       IF current = goal THEN [found |-> TRUE, prev |-> prev]
       ELSE LET st == VisitNeighbours(adjacency[current], current,
                        [queue |-> Tail(queue), prev |-> prev])
            IN Bfs(st.queue, st.prev, goal, adjacency)

\* while (cur) { pathRanks.push(cur); cur = prev[cur]; }  pathRanks.reverse()
\* (prev[cur] of a key that is not in prev is undefined, which ends the loop.)
RECURSIVE PathRanks(_, _, _)
PathRanks(cur, prev, acc) ==
  IF cur = NoId THEN acc
  ELSE PathRanks(IF cur \in DOMAIN prev THEN prev[cur] ELSE NoId, prev,
                 <<cur>> \o acc)

\* edgeMap.set(`${from}->${to}`, e) for every edge, then edgeMap.get(key):
\* a later edge with the same key replaces an earlier one.
\* A key that was never set gives undefined: every edge?.field is then
\* undefined (NoEdge).
NoEdge == [id |-> NoId, fromRank |-> NoId, toRank |-> NoId, distance |-> 0,
           price |-> 0, driverSplit |-> Undef, associationSplit |-> Undef]

EdgeMapGet(edges, from, to) ==
  LET hits == {i \in 1..Len(edges) :
                 edges[i].fromRank = from /\ edges[i].toRank = to}
  IN IF hits = {} THEN NoEdge
     ELSE edges[CHOOSE i \in hits : \A j \in hits : j <= i]

\* value ?? 0
OrZero(value) == IF value = Undef THEN 0 ELSE value

\* One leg of mappedRoute (driver is not set at creation).
MakeLeg(idx, edge) ==
  [leg |-> idx, associationSplit |-> OrZero(edge.associationSplit),
   driverSplit |-> OrZero(edge.driverSplit), details |-> edge.id,
   driver |-> NoId]

MappedRoute(edges, path) ==
  [idx \in 1..(Len(path) - 1) |->
     MakeLeg(idx, EdgeMapGet(edges, path[idx], path[idx + 1]))]

\* if (edge?.distance) fullDistance += edge.distance, over the path.
RECURSIVE SumDistance(_, _, _)
SumDistance(edges, path, idx) ==
  IF idx >= Len(path) THEN 0
  ELSE LET edge == EdgeMapGet(edges, path[idx], path[idx + 1]) IN
       (IF Truthy(edge.distance) THEN edge.distance ELSE 0)
         + SumDistance(edges, path, idx + 1)

\* if (edge?.price) totalPrice += edge.price, over the path.
RECURSIVE SumPrice(_, _, _)
SumPrice(edges, path, idx) ==
  IF idx >= Len(path) THEN 0
  ELSE LET edge == EdgeMapGet(edges, path[idx], path[idx + 1]) IN
       (IF Truthy(edge.price) THEN edge.price ELSE 0)
         + SumPrice(edges, path, idx + 1)

\* The remaining body fields (...rest) of a create request that the Trip
\* schema knows: each one, when present, replaces the derived value.
NoRest == [hasPrice |-> FALSE, price |-> 0,
           hasFullDistance |-> FALSE, fullDistance |-> 0,
           hasRoute |-> FALSE, route |-> <<>>]

\* new Trip({ price, origin, destination, route, fullDistance, ...rest })
NewTrip(origin, destination, edges, path, rest) ==
  [state |-> "stored",
   price |-> IF rest.hasPrice THEN rest.price ELSE SumPrice(edges, path, 1),
   origin |-> origin,
   destination |-> destination,
   route |-> IF rest.hasRoute THEN rest.route ELSE MappedRoute(edges, path),
   fullDistance |-> IF rest.hasFullDistance THEN rest.fullDistance
                    ELSE SumDistance(edges, path, 1)]

\* The ObjectId given to the next saved trip.
FreshTripId == CHOOSE id \in TripIds :
                 trips[id] = Free /\ \A j \in TripIds : trips[j] = Free => id <= j

createTrip(origin, destination, rest) ==
  /\ \E id \in TripIds : trips[id] = Free
  /\ IF origin = NoId \/ destination = NoId
     THEN /\ resp' = CreateTripReply(400, "ValidationError", <<>>,
                                     origin, destination)
          /\ UNCHANGED trips
     ELSE LET edges == routes
              search == Bfs(<<origin>>, (origin :> NoId), destination,
                            Adjacency(edges))
          IN IF search.found
             THEN LET pathRanks == PathRanks(destination, search.prev, <<>>)
                  IN /\ trips' = [trips EXCEPT ![FreshTripId] =
                            NewTrip(origin, destination, edges, pathRanks, rest)]
                     /\ resp' = CreateTripReply(201, "Created", pathRanks,
                                                origin, destination)
             ELSE /\ resp' = CreateTripReply(400, "Unreachable", <<>>,
                                             origin, destination)
                  /\ UNCHANGED trips
  /\ UNCHANGED <<routes, drivers, parcels, inflight>>

(***************************************************************************)
(* createTrip in steps: the request up to its await of the route list,     *)
(* the iterations of its search loop, and the rest up to its answer.       *)
(***************************************************************************)
\* A create request in a slot once PossibleRoute.find({}) has answered: what
\* it was sent, the edges it fetched, the queue and the predecessor map of
\* its search, the rank it dequeued last and every rank it has pushed so
\* far (the start included).
NewCreateRequest(origin, destination, rest, edges) ==
  [pc |-> "fetched", origin |-> origin, destination |-> destination,
   rest |-> rest, edges |-> edges, queue |-> <<origin>>,
   prev |-> (origin :> NoId), found |-> FALSE, current |-> NoId,
   enqueued |-> <<origin>>, kind |-> "none", tripId |-> NoId, path |-> <<>>]

\* A create request that has been answered.
AnsweredCreateRequest(req, kind, tripId, path) ==
  [req EXCEPT !.pc = "answered", !.kind = kind, !.tripId = tripId,
              !.path = path]

\* The field check and const edges = await PossibleRoute.find({})...lean().
createTripFetch(r, origin, destination, rest) ==
  /\ inflight[r] = Idle
  /\ IF origin = NoId \/ destination = NoId
     THEN /\ inflight' = [inflight EXCEPT ![r] =
               AnsweredCreateRequest(
                 NewCreateRequest(origin, destination, rest, <<>>),
                 "ValidationError", NoId, <<>>)]
          /\ resp' = CreateTripReply(400, "ValidationError", <<>>,
                                     origin, destination)
     ELSE /\ inflight' = [inflight EXCEPT ![r] =
               NewCreateRequest(origin, destination, rest, routes)]
          /\ UNCHANGED resp
  /\ UNCHANGED <<routes, trips, drivers, parcels>>

\* Variant: the loop goes on until the goal is found.
LoopRunsUntilFound(queue, found) == ~found

\* while (queue.length && !found)
LoopRuns(queue, found) == queue # <<>> /\ ~found

\* One iteration of the search loop: current = queue.shift() (undefined
\* for an empty queue); found when it is the goal, else its neighbours that
\* have no predecessor yet are pushed.
SearchStep(req) ==
  LET current == IF req.queue = <<>> THEN NoId ELSE Head(req.queue)
      shifted == IF req.queue = <<>> THEN <<>> ELSE Tail(req.queue)
  IN IF current = req.destination
     THEN [req EXCEPT !.queue = shifted, !.current = current, !.found = TRUE]
     ELSE LET nbrs == IF current \in Ranks
                      THEN Adjacency(req.edges)[current] ELSE <<>>
              st == VisitNeighbours(nbrs, current,
                      [queue |-> shifted, prev |-> req.prev])
          IN [req EXCEPT
                !.queue = st.queue, !.prev = st.prev, !.current = current,
                !.enqueued = @ \o SubSeq(st.queue, Len(shifted) + 1,
                                         Len(st.queue))]

createTripSearch(r) ==
  /\ inflight[r].pc = "fetched"
  /\ LoopRuns(inflight[r].queue, inflight[r].found)
  /\ inflight' = [inflight EXCEPT ![r] = SearchStep(@)]
  /\ UNCHANGED <<routes, trips, drivers, parcels, resp>>

\* The synchronous rest of the handler and its trip.save(): what is left
\* of the search, the path, the legs and the sums, all on the edges the
\* request fetched.
createTripSave(r) ==
  LET req == inflight[r] IN
  /\ req.pc = "fetched"
  /\ \E id \in TripIds : trips[id] = Free
  /\ LET search == IF req.found THEN [found |-> TRUE, prev |-> req.prev]
                   ELSE Bfs(req.queue, req.prev, req.destination,
                            Adjacency(req.edges))
     IN IF search.found
        THEN LET pathRanks == PathRanks(req.destination, search.prev, <<>>)
             IN /\ trips' = [trips EXCEPT ![FreshTripId] =
                       NewTrip(req.origin, req.destination, req.edges,
                               pathRanks, req.rest)]
                /\ inflight' = [inflight EXCEPT ![r] =
                       AnsweredCreateRequest(req, "Created", FreshTripId,
                                             pathRanks)]
                /\ resp' = CreateTripReply(201, "Created", pathRanks,
                                           req.origin, req.destination)
        ELSE /\ inflight' = [inflight EXCEPT ![r] =
                    AnsweredCreateRequest(req, "Unreachable", NoId, <<>>)]
             /\ resp' = CreateTripReply(400, "Unreachable", <<>>,
                                        req.origin, req.destination)
             /\ UNCHANGED trips
  /\ UNCHANGED <<routes, drivers, parcels>>

(***************************************************************************)
(* updateTrip, deleteTrip.                                                 *)
(***************************************************************************)
\* .populate("route.details"): the referenced document, or null when the
\* reference is unset or the document no longer exists.
HasDetails(edges, leg) == leg.details # NoId /\ leg.details \in RouteIds(edges)

\* The distance one leg adds to fullDistance in updateTrip.
LegDistance(edges, leg) ==
  IF HasDetails(edges, leg) THEN FindRoute(edges, leg.details).distance ELSE 0

\* The price one leg adds to totalPrice in updateTrip: a populated route
\* whose distance is falsy is fetched again and its price added, then the
\* populated price is added when truthy.
LegPrice(edges, leg) ==
  IF HasDetails(edges, leg)
  THEN LET pr == FindRoute(edges, leg.details) IN
       (IF Truthy(pr.distance) THEN 0 ELSE pr.price)
         + (IF Truthy(pr.price) THEN pr.price ELSE 0)
  ELSE 0

\* Variant: a leg whose route no longer resolves is saved with the null the
\* population left in details.
RefreshLegSavesNull(edges, leg) ==
  IF HasDetails(edges, leg)
  THEN LET pr == FindRoute(edges, leg.details) IN
       [leg EXCEPT !.driverSplit = pr.driverSplit,
                   !.associationSplit = pr.associationSplit]
  ELSE [leg EXCEPT !.details = NoId]

\* Variant: the leg is rebuilt from the route, without its driver.
RefreshLegDropsDriver(edges, leg) ==
  IF HasDetails(edges, leg)
  THEN LET pr == FindRoute(edges, leg.details) IN
       [leg EXCEPT !.driverSplit = pr.driverSplit,
                   !.associationSplit = pr.associationSplit,
                   !.driver = NoId]
  ELSE leg

\* leg.driverSplit / leg.associationSplit are overwritten from the
\* populated route.
RefreshLeg(edges, leg) ==
  IF HasDetails(edges, leg)
  THEN LET pr == FindRoute(edges, leg.details) IN
       [leg EXCEPT !.driverSplit = pr.driverSplit,
                   !.associationSplit = pr.associationSplit]
  ELSE leg

RECURSIVE SumLegs(_, _, _)
SumLegs(F(_, _), edges, legs) ==
  IF legs = <<>> THEN 0
  ELSE F(edges, Head(legs)) + SumLegs(F, edges, Tail(legs))

updateTrip(id, origin, destination) ==
  /\ IF ~IsStored(trips[id])
     THEN /\ resp' = Reply("updateTrip", 404, "TripNotFound")
          /\ UNCHANGED trips
     ELSE LET existing == trips[id] IN
          /\ trips' = [trips EXCEPT ![id] =
               [existing EXCEPT
                  !.origin = IF origin # NoId THEN origin ELSE @,
                  !.destination = IF destination # NoId THEN destination ELSE @,
                  !.route = [i \in 1..Len(existing.route) |->
                               RefreshLeg(routes, existing.route[i])],
                  !.price = SumLegs(LegPrice, routes, existing.route),
                  !.fullDistance = SumLegs(LegDistance, routes, existing.route)]]
          /\ resp' = Reply("updateTrip", 200, "Updated")
  /\ UNCHANGED <<routes, drivers, parcels, inflight>>

deleteTrip(id) ==
  /\ IF ~IsStored(trips[id])
     THEN /\ resp' = Reply("deleteTrip", 404, "TripNotFound")
          /\ UNCHANGED trips
     ELSE /\ trips' = [trips EXCEPT ![id] = Deleted]
          /\ resp' = Reply("deleteTrip", 200, "Deleted")
  /\ UNCHANGED <<routes, drivers, parcels, inflight>>

(***************************************************************************)
(* linkDriverToTripLeg, unlinkDriverFromTripLeg.                           *)
(***************************************************************************)
\* Trip.findById of an id the request names (any ObjectId may be sent).
TripExists(tripId) == tripId \in TripIds /\ IsStored(trips[tripId])
DriverExists(driverId) == driverId \in DriverIds /\ IsStored(drivers[driverId])

\* Variant: eligibility is checked against the toRank of the leg's route.
LinkOutcomeToRank(tripId, leg, driverId) ==
  IF tripId = NoId \/ ~Truthy(leg) \/ driverId = NoId THEN "ValidationError"
  ELSE IF ~TripExists(tripId) THEN "TripNotFound"
  ELSE IF leg - 1 < 0 \/ leg - 1 >= Len(trips[tripId].route)
       THEN "InvalidLegNumber"
  ELSE IF ~HasDetails(routes, trips[tripId].route[leg])
       THEN "LegHasNoRouteDetails"
  ELSE IF ~DriverExists(driverId) THEN "DriverNotFound"
  ELSE IF FindRoute(routes, trips[tripId].route[leg].details).toRank
            \notin drivers[driverId].linkedRanks
       THEN "DriverNotEligible"
  ELSE "Linked"

\* Variant: the driver's linked ranks are not looked at.
LinkOutcomeAnyDriver(tripId, leg, driverId) ==
  IF tripId = NoId \/ ~Truthy(leg) \/ driverId = NoId THEN "ValidationError"
  ELSE IF ~TripExists(tripId) THEN "TripNotFound"
  ELSE IF leg - 1 < 0 \/ leg - 1 >= Len(trips[tripId].route)
       THEN "InvalidLegNumber"
  ELSE IF ~HasDetails(routes, trips[tripId].route[leg])
       THEN "LegHasNoRouteDetails"
  ELSE IF ~DriverExists(driverId) THEN "DriverNotFound"
  ELSE "Linked"

\* The outcome of the checks of linkDriverToTripLeg, in the order of the code.
LinkOutcome(tripId, leg, driverId) ==
  IF tripId = NoId \/ ~Truthy(leg) \/ driverId = NoId THEN "ValidationError"
  ELSE IF ~TripExists(tripId) THEN "TripNotFound"
  ELSE IF leg - 1 < 0 \/ leg - 1 >= Len(trips[tripId].route)
       THEN "InvalidLegNumber"
  ELSE IF ~HasDetails(routes, trips[tripId].route[leg])
       THEN "LegHasNoRouteDetails"
  ELSE IF ~DriverExists(driverId) THEN "DriverNotFound"
  ELSE IF FindRoute(routes, trips[tripId].route[leg].details).fromRank
            \notin drivers[driverId].linkedRanks
       THEN "DriverNotEligible"
  ELSE "Linked"

\* Variant: a leg whose route does not resolve ends the request in the
\* catch block.
LinkStatusDetailsThrow(kind) ==
  CASE kind = "Linked" -> 200
    [] kind \in {"TripNotFound", "DriverNotFound"} -> 404
    [] kind = "LegHasNoRouteDetails" -> 500
    [] OTHER -> 400

LinkStatus(kind) ==
  CASE kind = "Linked" -> 200
    [] kind \in {"TripNotFound", "DriverNotFound"} -> 404
    [] OTHER -> 400

\* Variant: the driver is written to every leg of the trip.
AssignDriverAllLegs(trip, legIndex, driverId) ==
  [trip EXCEPT !.route = [i \in 1..Len(trip.route) |->
                            [trip.route[i] EXCEPT !.driver = driverId]]]

\* (trip.route as any[])[legIndex].driver = driverId; await trip.save()
AssignDriver(trip, legIndex, driverId) ==
  [trip EXCEPT !.route[legIndex + 1].driver = driverId]

linkDriverToTripLeg(tripId, leg, driverId) ==
  LET kind == LinkOutcome(tripId, leg, driverId) IN
  /\ resp' = Reply("linkDriverToTripLeg", LinkStatus(kind), kind)
  /\ IF kind = "Linked"
     THEN trips' = [trips EXCEPT ![tripId] = AssignDriver(@, leg - 1, driverId)]
     ELSE UNCHANGED trips
  /\ UNCHANGED <<routes, drivers, parcels, inflight>>

\* Variant: a leg without a driver cannot be unlinked.
UnlinkOutcomeNeedsDriver(tripId, leg) ==
  IF tripId = NoId \/ ~Truthy(leg) THEN "ValidationError"
  ELSE IF ~TripExists(tripId) THEN "TripNotFound"
  ELSE IF leg - 1 < 0 \/ leg - 1 >= Len(trips[tripId].route)
       THEN "InvalidLegNumber"
  ELSE IF trips[tripId].route[leg].driver = NoId THEN "InvalidLegNumber"
  ELSE "Unlinked"

\* The outcome of the checks of unlinkDriverFromTripLeg.
UnlinkOutcome(tripId, leg) ==
  IF tripId = NoId \/ ~Truthy(leg) THEN "ValidationError"
  ELSE IF ~TripExists(tripId) THEN "TripNotFound"
  ELSE IF leg - 1 < 0 \/ leg - 1 >= Len(trips[tripId].route)
       THEN "InvalidLegNumber"
  ELSE "Unlinked"

unlinkDriverFromTripLeg(tripId, leg) ==
  LET kind == UnlinkOutcome(tripId, leg) IN
  /\ resp' = Reply("unlinkDriverFromTripLeg",
                   CASE kind = "Unlinked" -> 200
                     [] kind = "TripNotFound" -> 404
                     [] OTHER -> 400, kind)
  /\ IF kind = "Unlinked"
     THEN trips' = [trips EXCEPT ![tripId] = AssignDriver(@, leg - 1, NoId)]
     ELSE UNCHANGED trips
  /\ UNCHANGED <<routes, drivers, parcels, inflight>>

(***************************************************************************)
(* linkDriverToTripLeg as it runs when requests overlap: the handler        *)
(* yields at each await, so another request can be served between its      *)
(* load of the trip, its load of the driver and its save.                  *)
(***************************************************************************)
\* A link request in a slot: where it stands, what it was sent, the trip
\* document and the leg's fromRank it loaded, and its answer once it has one.
LinkRequest(pc, tripId, leg, driverId, trip, fromRank, kind) ==
  [pc |-> pc, tripId |-> tripId, leg |-> leg, driverId |-> driverId,
   trip |-> trip, fromRank |-> fromRank, kind |-> kind]

\* The answers given before the driver is looked up.
TripStageFailures ==
  {"ValidationError", "TripNotFound", "InvalidLegNumber", "LegHasNoRouteDetails"}

\* Variant: save() writes the whole document as the request loaded it.
SaveWholeDocument(stored, loaded, legIndex, driverId) ==
  AssignDriver(loaded, legIndex, driverId)

\* await trip.save() after route[legIndex].driver = driverId: Mongoose sends
\* the modified paths only, here $set of route.<legIndex>.driver, to the
\* stored document (the version key is matched but never incremented by a
\* write to a field of an array element, so the match succeeds).
SaveLegDriver(stored, loaded, legIndex, driverId) ==
  [stored EXCEPT !.route[legIndex + 1].driver = driverId]

\* Up to the first await that follows the trip: field check, Trip.findById
\* with route.details populated, leg number and leg details checks.
linkLoadTrip(r, tripId, leg, driverId) ==
  LET kind == LinkOutcome(tripId, leg, driverId) IN
  /\ inflight[r] = Idle
  /\ IF kind \in TripStageFailures
     THEN /\ inflight' = [inflight EXCEPT ![r] =
               LinkRequest("done", tripId, leg, driverId, Free, NoId, kind)]
          /\ resp' = Reply("linkDriverToTripLeg", LinkStatus(kind), kind)
     ELSE /\ inflight' = [inflight EXCEPT ![r] =
               LinkRequest("driver", tripId, leg, driverId, trips[tripId],
                 FindRoute(routes, trips[tripId].route[leg].details).fromRank,
                 "none")]
          /\ UNCHANGED resp
  /\ UNCHANGED <<routes, trips, drivers, parcels>>

\* Driver.findById(driverId) and the linkedRanks check.
linkLoadDriver(r) ==
  LET req == inflight[r] IN
  /\ req.pc = "driver"
  /\ IF ~DriverExists(req.driverId)
     THEN /\ inflight' = [inflight EXCEPT ![r].pc = "done",
                                          ![r].kind = "DriverNotFound"]
          /\ resp' = Reply("linkDriverToTripLeg", 404, "DriverNotFound")
     ELSE IF req.fromRank \notin drivers[req.driverId].linkedRanks
     THEN /\ inflight' = [inflight EXCEPT ![r].pc = "done",
                                          ![r].kind = "DriverNotEligible"]
          /\ resp' = Reply("linkDriverToTripLeg", 400, "DriverNotEligible")
     ELSE /\ inflight' = [inflight EXCEPT ![r].pc = "save"]
          /\ UNCHANGED resp
  /\ UNCHANGED <<routes, trips, drivers, parcels>>

\* The assignment and trip.save(); saving a document that was deleted in
\* the meantime throws, which the handler answers with 500.
linkSaveTrip(r) ==
  LET req == inflight[r] IN
  /\ req.pc = "save"
  /\ IF IsStored(trips[req.tripId])
     THEN /\ trips' = [trips EXCEPT ![req.tripId] =
               SaveLegDriver(@, req.trip, req.leg - 1, req.driverId)]
          /\ inflight' = [inflight EXCEPT ![r].pc = "done",
                                          ![r].kind = "Linked"]
          /\ resp' = Reply("linkDriverToTripLeg", 200, "Linked")
     ELSE /\ inflight' = [inflight EXCEPT ![r].pc = "done",
                                          ![r].kind = "ServerError"]
          /\ resp' = Reply("linkDriverToTripLeg", 500, "ServerError")
          /\ UNCHANGED trips
  /\ UNCHANGED <<routes, drivers, parcels>>

(***************************************************************************)
(* PossibleRoute and Driver operations.                                    *)
(***************************************************************************)
\* One field of a PossibleRoute update body.
PatchRoute(route, patch) ==
  CASE patch.field = "driverSplit" -> [route EXCEPT !.driverSplit = patch.value]
    [] patch.field = "associationSplit" ->
         [route EXCEPT !.associationSplit = patch.value]
    [] patch.field = "distance" -> [route EXCEPT !.distance = patch.value]
    [] patch.field = "price" -> [route EXCEPT !.price = patch.value]
    [] patch.field = "fromRank" -> [route EXCEPT !.fromRank = patch.value]
    [] patch.field = "toRank" -> [route EXCEPT !.toRank = patch.value]

\* The _id of the next saved route: one no stored route, no leg and no
\* fetched edge list knows.
FreshRouteId ==
  LET known == RouteIds(routes)
                 \cup UNION {{trips[t].route[i].details :
                                i \in 1..Len(trips[t].route)} :
                              t \in {u \in TripIds : IsStored(trips[u])}}
                 \cup UNION {RouteIds(inflight[r].edges) :
                              r \in {q \in Requests :
                                       inflight[q].pc \in {"fetched", "answered"}}}
  IN CHOOSE id \in 1..(Cardinality(known) + 1) : id \notin known

\* new Route(req.body).save()
createRoute(from, to, distance, price) ==
  /\ Len(routes) < MaxEdges
  /\ routes' = Append(routes,
                  RouteDoc(FreshRouteId, from, to, distance, price, 0, 0))
  /\ resp' = Reply("createRoute", 201, "Created")
  /\ UNCHANGED <<trips, drivers, parcels, inflight>>

\* Route.findByIdAndUpdate(req.params.id, req.body, { new: true })
updateRoute(id, patch) ==
  /\ IF id \notin RouteIds(routes)
     THEN /\ resp' = Reply("updateRoute", 404, "RouteNotFound")
          /\ UNCHANGED routes
     ELSE /\ routes' = [i \in 1..Len(routes) |->
                          IF routes[i].id = id THEN PatchRoute(routes[i], patch)
                          ELSE routes[i]]
          /\ resp' = Reply("updateRoute", 200, "Updated")
  /\ UNCHANGED <<trips, drivers, parcels, inflight>>

\* Route.findByIdAndDelete(req.params.id)
deleteRoute(id) ==
  /\ IF id \notin RouteIds(routes)
     THEN /\ resp' = Reply("deleteRoute", 404, "RouteNotFound")
          /\ UNCHANGED routes
     ELSE /\ routes' = SelectSeq(routes, LAMBDA e : e.id # id)
          /\ resp' = Reply("deleteRoute", 200, "Deleted")
  /\ UNCHANGED <<trips, drivers, parcels, inflight>>

\* PossibleRoute.findOne({ fromRank, toRank }): the first route of the
\* collection that goes from one rank to the other.
FirstRouteBetween(edges, from, to) ==
  edges[CHOOSE i \in 1..Len(edges) :
          /\ edges[i].fromRank = from /\ edges[i].toRank = to
          /\ \A j \in 1..(i - 1) :
               ~(edges[j].fromRank = from /\ edges[j].toRank = to)]

\* unlinkDestinationRank: the base rank must exist; the first route from it
\* to the destination rank is deleted.
unlinkDestinationRank(taxiRankId, destinationRankId) ==
  /\ IF taxiRankId \notin Ranks
     THEN /\ resp' = Reply("unlinkDestinationRank", 404, "TaxiRankNotFound")
          /\ UNCHANGED routes
     ELSE IF ~\E i \in 1..Len(routes) :
                /\ routes[i].fromRank = taxiRankId
                /\ routes[i].toRank = destinationRankId
     THEN /\ resp' = Reply("unlinkDestinationRank", 404, "RouteNotFound")
          /\ UNCHANGED routes
     ELSE LET route == FirstRouteBetween(routes, taxiRankId, destinationRankId)
          IN /\ routes' = SelectSeq(routes, LAMBDA e : e.id # route.id)
             /\ resp' = Reply("unlinkDestinationRank", 200, "Unlinked")
  /\ UNCHANGED <<trips, drivers, parcels, inflight>>

DriverDoc(linkedRanks) == [state |-> "stored", linkedRanks |-> linkedRanks]

\* Driver linkTaxiRank: push rankId unless linkedRanks includes it.
linkTaxiRank(driverId, rankId) ==
  /\ IF ~DriverExists(driverId)
     THEN /\ resp' = Reply("linkTaxiRank", 404, "DriverNotFound")
          /\ UNCHANGED drivers
     ELSE /\ drivers' = [drivers EXCEPT
                           ![driverId].linkedRanks = @ \cup {rankId}]
          /\ resp' = Reply("linkTaxiRank", 200, "Linked")
  /\ UNCHANGED <<routes, trips, parcels, inflight>>

\* Driver unlinkTaxiRank: linkedRanks.filter(id => id.toString() !== rankId)
unlinkTaxiRank(driverId, rankId) ==
  /\ IF ~DriverExists(driverId)
     THEN /\ resp' = Reply("unlinkTaxiRank", 404, "DriverNotFound")
          /\ UNCHANGED drivers
     ELSE /\ drivers' = [drivers EXCEPT
                           ![driverId].linkedRanks = @ \ {rankId}]
          /\ resp' = Reply("unlinkTaxiRank", 200, "Unlinked")
  /\ UNCHANGED <<routes, trips, parcels, inflight>>

\* Driver.findByIdAndDelete(req.params.id)
deleteDriver(driverId) ==
  /\ IF ~DriverExists(driverId)
     THEN /\ resp' = Reply("deleteDriver", 404, "DriverNotFound")
          /\ UNCHANGED drivers
     ELSE /\ drivers' = [drivers EXCEPT ![driverId] = Deleted]
          /\ resp' = Reply("deleteDriver", 200, "Deleted")
  /\ UNCHANGED <<routes, trips, parcels, inflight>>

(***************************************************************************)
(* Parcel operations.                                                      *)
(***************************************************************************)
ParcelExists(parcelId) == parcelId \in ParcelIds /\ IsStored(parcels[parcelId])

FreshParcelId == CHOOSE id \in ParcelIds :
                   parcels[id] = Free
                     /\ \A j \in ParcelIds : parcels[j] = Free => id <= j

\* The status enum of the Parcel schema.
ParcelStatuses == {"awaiting-pickup", "in-transit", "delivered", "received"}

\* The trackingNumber, receiverOtp and status fields of a create body:
\* absent, or the value sent.
NoParcelRest == [hasTrackingNumber |-> FALSE, trackingNumber |-> 0,
                 hasReceiverOtp |-> FALSE, receiverOtp |-> "",
                 hasStatus |-> FALSE, status |-> ""]

\* { trackingNumber, receiverOtp, status: "awaiting-pickup", ...req.body }:
\* a field of the body replaces the one written before the spread.
NewParcel(trip, legIndex, trackingNumber, receiverOtp, rest) ==
  [state |-> "stored", trip |-> trip, legIndex |-> legIndex,
   status |-> IF rest.hasStatus THEN rest.status ELSE "awaiting-pickup",
   trackingNumber |->
     IF rest.hasTrackingNumber THEN rest.trackingNumber ELSE trackingNumber,
   receiverOtp |->
     IF rest.hasReceiverOtp THEN rest.receiverOtp ELSE receiverOtp]

\* new Parcel({ ..., ...req.body }).save(): trackingNumber and receiverOtp
\* are the values the random generators produced for this request; save()
\* validates legIndex (min 0) and status (enum), and the unique index
\* rejects a trackingNumber already stored; the trip reference is stored
\* as sent.
createParcel(trip, legIndex, trackingNumber, receiverOtp, rest) ==
  LET parcel == NewParcel(trip, legIndex, trackingNumber, receiverOtp, rest) IN
  /\ \E id \in ParcelIds : parcels[id] = Free
  /\ IF \/ legIndex # Undef /\ legIndex < 0
        \/ parcel.status \notin ParcelStatuses
        \/ \E q \in ParcelIds :
             /\ IsStored(parcels[q])
             /\ parcels[q].trackingNumber = parcel.trackingNumber
     THEN /\ resp' = Reply("createParcel", 500, "ServerError")
          /\ UNCHANGED parcels
     ELSE /\ parcels' = [parcels EXCEPT ![FreshParcelId] = parcel]
          /\ resp' = Reply("createParcel", 201, "Created")
  /\ UNCHANGED <<routes, trips, drivers, inflight>>

\* One field of a Parcel update body.
PatchParcel(parcel, patch) ==
  CASE patch.field = "trip" -> [parcel EXCEPT !.trip = patch.value]
    [] patch.field = "legIndex" -> [parcel EXCEPT !.legIndex = patch.value]
    [] patch.field = "status" -> [parcel EXCEPT !.status = patch.value]

\* Parcel.findByIdAndUpdate(req.params.id, req.body, { new: true })
updateParcel(parcelId, patch) ==
  /\ IF ~ParcelExists(parcelId)
     THEN /\ resp' = Reply("updateParcel", 404, "ParcelNotFound")
          /\ UNCHANGED parcels
     ELSE /\ parcels' = [parcels EXCEPT ![parcelId] = PatchParcel(@, patch)]
          /\ resp' = Reply("updateParcel", 200, "Updated")
  /\ UNCHANGED <<routes, trips, drivers, inflight>>

\* Parcel.findByIdAndUpdate(parcelId, { status }, { new: true }): the update
\* runs no schema validators.
updateParcelStatus(parcelId, status) ==
  /\ IF ~ParcelExists(parcelId)
     THEN /\ resp' = Reply("updateParcelStatus", 404, "ParcelNotFound")
          /\ UNCHANGED parcels
     ELSE /\ parcels' = [parcels EXCEPT ![parcelId].status = status]
          /\ resp' = Reply("updateParcelStatus", 200, "Updated")
  /\ UNCHANGED <<routes, trips, drivers, inflight>>

\* if (parcel.receiverOtp !== otp) 400; parcel.status = "received"; save()
verifyParcelOtp(parcelId, otp) ==
  /\ IF ~ParcelExists(parcelId)
     THEN /\ resp' = Reply("verifyParcelOtp", 404, "ParcelNotFound")
          /\ UNCHANGED parcels
     ELSE IF parcels[parcelId].receiverOtp # otp
     THEN /\ resp' = Reply("verifyParcelOtp", 400, "InvalidOtp")
          /\ UNCHANGED parcels
     ELSE /\ parcels' = [parcels EXCEPT ![parcelId].status = "received"]
          /\ resp' = Reply("verifyParcelOtp", 200, "Verified")
  /\ UNCHANGED <<routes, trips, drivers, inflight>>

\* Parcel.findByIdAndDelete(req.params.id)
deleteParcel(parcelId) ==
  /\ IF ~ParcelExists(parcelId)
     THEN /\ resp' = Reply("deleteParcel", 404, "ParcelNotFound")
          /\ UNCHANGED parcels
     ELSE /\ parcels' = [parcels EXCEPT ![parcelId] = Deleted]
          /\ resp' = Reply("deleteParcel", 200, "Deleted")
  /\ UNCHANGED <<routes, trips, drivers, inflight>>

\* Variant: the index one past the last leg is accepted.
LegIndexInBoundsInclusive(trip, legIndex) ==
  legIndex \in 0..Len(trip.route)

\* !Array.isArray(trip.route) || !trip.route[legIndex]
LegIndexInBounds(trip, legIndex) ==
  legIndex \in 0..(Len(trip.route) - 1)

\* Variant: a parcel without a trip is moved although no tripId was sent.
MoveOutcomeWithoutTrip(parcelId, tripId, legIndex) ==
  IF legIndex = Undef \/ legIndex < 0 THEN "InvalidLegIndex"
  ELSE IF ~ParcelExists(parcelId) THEN "ParcelNotFound"
  ELSE IF tripId # NoId
       THEN IF ~TripExists(tripId) THEN "TripNotFound"
            ELSE IF ~LegIndexInBounds(trips[tripId], legIndex)
                 THEN "InvalidLegIndex"
            ELSE "Moved"
  ELSE IF parcels[parcelId].trip # NoId
       THEN IF ~TripExists(parcels[parcelId].trip) THEN "TripNotFound"
            ELSE IF ~LegIndexInBounds(trips[parcels[parcelId].trip], legIndex)
                 THEN "InvalidLegIndex"
            ELSE "Moved"
  ELSE "Moved"

\* The outcome of the checks of moveParcelLeg, in the order of the code.
MoveOutcome(parcelId, tripId, legIndex) ==
  IF legIndex = Undef \/ legIndex < 0 THEN "InvalidLegIndex"
  ELSE IF ~ParcelExists(parcelId) THEN "ParcelNotFound"
  ELSE IF tripId # NoId
       THEN IF ~TripExists(tripId) THEN "TripNotFound"
            ELSE IF ~LegIndexInBounds(trips[tripId], legIndex)
                 THEN "InvalidLegIndex"
            ELSE "Moved"
  ELSE IF parcels[parcelId].trip # NoId
       THEN IF ~TripExists(parcels[parcelId].trip) THEN "TripNotFound"
            ELSE IF ~LegIndexInBounds(trips[parcels[parcelId].trip], legIndex)
                 THEN "InvalidLegIndex"
            ELSE "Moved"
  ELSE "MissingTripContext"

\* Variant: the parcel is put back to awaiting-pickup when it is moved.
MoveParcelResetsStatus(parcel, tripId, legIndex) ==
  [parcel EXCEPT !.trip = IF tripId # NoId THEN tripId ELSE @,
                 !.legIndex = legIndex,
                 !.status = "awaiting-pickup"]

\* parcel.trip = trip._id (when tripId was sent); parcel.legIndex = legIndex
MoveParcel(parcel, tripId, legIndex) ==
  [parcel EXCEPT !.trip = IF tripId # NoId THEN tripId ELSE @,
                 !.legIndex = legIndex]

moveParcelLeg(parcelId, tripId, legIndex) ==
  LET kind == MoveOutcome(parcelId, tripId, legIndex) IN
  /\ resp' = Reply("moveParcelLeg",
                   CASE kind = "Moved" -> 200
                     [] kind \in {"ParcelNotFound", "TripNotFound"} -> 404
                     [] OTHER -> 400, kind)
  /\ IF kind = "Moved"
     THEN parcels' = [parcels EXCEPT
            ![parcelId] = MoveParcel(@, tripId, legIndex)]
     ELSE UNCHANGED parcels
  /\ UNCHANGED <<routes, trips, drivers, inflight>>

(***************************************************************************)
(* Request values.                                                         *)
(***************************************************************************)
RankInputs == Ranks \cup {NoId}
TripIdInputs == TripIds \cup {NoId}
DriverIdInputs == DriverIds \cup {NoId}
LegInputs == (-1)..NumRanks
LegIndexInputs == {Undef, -2} \cup (0..(NumRanks - 1))

\* The values the tracking-number and OTP generators can produce.
TrackingNumbers == 1..MaxParcels
Otps == {"000000", "000001"}

\* The trackingNumber, receiverOtp and status a create body may carry.
ParcelRestInputs ==
  {NoParcelRest,
   [NoParcelRest EXCEPT !.hasTrackingNumber = TRUE, !.trackingNumber = 77],
   [NoParcelRest EXCEPT !.hasReceiverOtp = TRUE, !.receiverOtp = "123456"],
   [NoParcelRest EXCEPT !.hasStatus = TRUE, !.status = "delivered"],
   [NoParcelRest EXCEPT !.hasStatus = TRUE, !.status = "lost"]}

\* The status a status update or a parcel update may carry.
StatusInputs == ParcelStatuses \cup {"lost"}

\* A leg sent in the body of a create request.
SuppliedLeg == [leg |-> 5, associationSplit |-> 1, driverSplit |-> 1,
                details |-> NoId, driver |-> NoId]

RestInputs ==
  {NoRest,
   [NoRest EXCEPT !.hasPrice = TRUE, !.price = 99],
   [NoRest EXCEPT !.hasFullDistance = TRUE, !.fullDistance = 99],
   [NoRest EXCEPT !.hasRoute = TRUE, !.route = <<SuppliedLeg>>]}

(***************************************************************************)
(* Path finding: one create request against every small route collection.  *)
(***************************************************************************)
\* Attributes of the route created as the id-th document.
SeedDistance(id) == 5 * id
SeedPrice(id) == IF id % 2 = 0 THEN 0 ELSE id + 1
\* The third route has lost its driverSplit (set to null by a route update).
SeedDriverSplit(id) == IF id = 3 THEN Undef ELSE 10 * id
SeedAssociationSplit(id) == 100 - 10 * id

SeedRoute(id, from, to) ==
  RouteDoc(id, from, to, SeedDistance(id), SeedPrice(id),
           SeedDriverSplit(id), SeedAssociationSplit(id))

\* Every route collection of at most MaxEdges directed edges over Ranks
\* (self-loops and parallel edges included), in every insertion order.
EdgeLists ==
  UNION {[1..n -> Ranks \X Ranks] : n \in 0..MaxEdges}

RoutesOf(pairs) ==
  [i \in 1..Len(pairs) |-> SeedRoute(i, pairs[i][1], pairs[i][2])]

InitGraph ==
  /\ \E pairs \in EdgeLists : routes = RoutesOf(pairs)
  /\ trips = [id \in TripIds |-> Free]
  /\ drivers = [d \in DriverIds |-> Free]
  /\ parcels = [p \in ParcelIds |-> Free]
  /\ resp = NoResp
  /\ inflight = [r \in Requests |-> Idle]

NextGraph ==
  /\ resp = NoResp
  /\ \E origin \in Ranks, destination \in Ranks :
       createTrip(origin, destination, NoRest)

SpecGraph == InitGraph /\ [][NextGraph]_vars

\* The same collections, with every create request: origin or destination
\* missing, and body fields beyond origin and destination.
NextCreate ==
  /\ resp = NoResp
  /\ \E origin \in RankInputs, destination \in RankInputs, rest \in RestInputs :
       createTrip(origin, destination, rest)

SpecCreate == InitGraph /\ [][NextCreate]_vars

(***************************************************************************)
(* The service: every operation, from a seeded store.                      *)
(***************************************************************************)
\* Ranks 1 -> 2 -> 3 are connected by routes 1 and 2; driver 1 is linked to
\* rank 1 and driver 2 to the last rank.
Init ==
  /\ routes = <<SeedRoute(1, 1, 2), SeedRoute(2, 2, 3)>>
  /\ trips = [id \in TripIds |-> Free]
  /\ drivers = [d \in DriverIds |->
                  DriverDoc(IF d = 1 THEN {1} ELSE {NumRanks})]
  /\ parcels = [p \in ParcelIds |-> Free]
  /\ resp = NoResp
  /\ inflight = [r \in Requests |-> Idle]

RoutePatches ==
  {[field |-> "driverSplit", value |-> 55]}

ParcelPatches ==
  {[field |-> "legIndex", value |-> NumRanks]}

\* No create request has been served yet.
NoTripYet == \A id \in TripIds : trips[id] = Free

\* One trip is created; every later request addresses it.
Next ==
  \/ NoTripYet /\ \E o \in {1, 2}, d \in {2, 3} : createTrip(o, d, NoRest)
  \/ \E id \in TripIds, o \in {NoId, 3}, d \in {NoId, 1} : updateTrip(id, o, d)
  \/ \E id \in TripIds : deleteTrip(id)
  \/ \E t \in TripIds, leg \in 1..2, d \in DriverIds :
       linkDriverToTripLeg(t, leg, d)
  \/ \E t \in TripIds, leg \in 1..2 : unlinkDriverFromTripLeg(t, leg)
  \/ \E patch \in RoutePatches : updateRoute(1, patch)
  \/ deleteRoute(2)
  \/ linkTaxiRank(2, 1)
  \/ unlinkTaxiRank(2, 1)
  \/ deleteDriver(1)
  \/ \E i \in {0, 1}, tn \in TrackingNumbers : createParcel(1, i, tn, "000000", NoParcelRest)
  \/ \E p \in ParcelIds, patch \in ParcelPatches : updateParcel(p, patch)
  \/ \E p \in ParcelIds : deleteParcel(p)
  \/ \E p \in ParcelIds, t \in {NoId, 1}, i \in {0, 1} : moveParcelLeg(p, t, i)

Spec == Init /\ [][Next]_vars

(***************************************************************************)
(* Driver assignment: trips, legs, drivers' ranks and the routes the legs  *)
(* reference.                                                              *)
(***************************************************************************)
NextLink ==
  \/ NoTripYet /\ \E o \in Ranks, d \in Ranks, rest \in {NoRest, [NoRest EXCEPT
         !.hasRoute = TRUE, !.route = <<SuppliedLeg>>]} :
       createTrip(o, d, rest)
  \/ \E t \in TripIdInputs, leg \in LegInputs, d \in DriverIdInputs :
       linkDriverToTripLeg(t, leg, d)
  \/ \E t \in TripIdInputs, leg \in LegInputs : unlinkDriverFromTripLeg(t, leg)
  \/ \E id \in 1..2 : updateRoute(id, [field |-> "fromRank", value |-> NumRanks])
  \/ \E id \in 1..2 : deleteRoute(id)
  \/ \E from \in {NoId, 1, 2}, to \in {2, 3} : unlinkDestinationRank(from, to)
  \/ \E d \in DriverIds, r \in {1, 2} : linkTaxiRank(d, r)
  \/ \E d \in DriverIds, r \in {1, 2} : unlinkTaxiRank(d, r)
  \/ \E d \in DriverIds : deleteDriver(d)

SpecLink == Init /\ [][NextLink]_vars

(***************************************************************************)
(* Parcel binding: parcels and the trips they reference.                   *)
(***************************************************************************)
NextParcel ==
  \/ NoTripYet /\ \E o \in Ranks, d \in Ranks : createTrip(o, d, NoRest)
  \/ \E id \in TripIds : updateTrip(id, NoId, NoId)
  \/ \E id \in TripIds : deleteTrip(id)
  \/ \E t \in TripIdInputs, i \in LegIndexInputs, tn \in TrackingNumbers :
       createParcel(t, i, tn, "000000", NoParcelRest)
  \/ \E p \in ParcelIds, patch \in
         {[field |-> "trip", value |-> t] : t \in TripIdInputs}
           \cup {[field |-> "legIndex", value |-> i] : i \in 0..NumRanks} :
       updateParcel(p, patch)
  \/ \E p \in ParcelIds, status \in {"in-transit", "delivered"} :
       updateParcelStatus(p, status)
  \/ \E p \in ParcelIds, otp \in Otps : verifyParcelOtp(p, otp)
  \/ \E p \in ParcelIds : deleteParcel(p)
  \/ \E p \in ParcelIds, t \in TripIdInputs, i \in LegIndexInputs :
       moveParcelLeg(p, t, i)

SpecParcel == Init /\ [][NextParcel]_vars

(***************************************************************************)
(* Parcel lifecycle: creation, status updates and OTP verification.        *)
(***************************************************************************)
NextLifecycle ==
  \/ \E t \in {NoId, 1}, i \in {Undef, 0}, tn \in TrackingNumbers,
        otp \in Otps, rest \in ParcelRestInputs :
       createParcel(t, i, tn, otp, rest)
  \/ \E p \in ParcelIds, status \in StatusInputs :
       updateParcel(p, [field |-> "status", value |-> status])
  \/ \E p \in ParcelIds, status \in StatusInputs :
       updateParcelStatus(p, status)
  \/ \E p \in ParcelIds, otp \in Otps \cup {"123456"} : verifyParcelOtp(p, otp)
  \/ \E p \in ParcelIds : deleteParcel(p)

SpecLifecycle == Init /\ [][NextLifecycle]_vars

(***************************************************************************)
(* Aggregates: trips and the distance and price of the routes they         *)
(* reference.                                                              *)
(***************************************************************************)
AggregatePatches ==
  {[field |-> "distance", value |-> 7], [field |-> "distance", value |-> 0],
   [field |-> "price", value |-> 9]}

NextAggregates ==
  \/ NoTripYet /\ \E o \in Ranks, d \in Ranks : createTrip(o, d, NoRest)
  \/ \E id \in TripIds, o \in {NoId, 3} : updateTrip(id, o, NoId)
  \/ \E id \in TripIds : deleteTrip(id)
  \/ \E id \in 1..2, patch \in AggregatePatches : updateRoute(id, patch)
  \/ \E id \in 1..2 : deleteRoute(id)
  \/ \E t \in TripIds, leg \in 1..2 : linkDriverToTripLeg(t, leg, 1)
  \/ \E t \in TripIds, leg \in 1..2 : unlinkDriverFromTripLeg(t, leg)

SpecAggregates == Init /\ [][NextAggregates]_vars

(***************************************************************************)
(* Frames: what a link, an unlink and a parcel move leave alone, with      *)
(* several trips stored.                                                   *)
(***************************************************************************)
NextFrame ==
  \/ \E d \in {2, 3} : createTrip(1, d, NoRest)
  \/ \E t \in TripIds, leg \in 1..2, d \in DriverIds :
       linkDriverToTripLeg(t, leg, d)
  \/ \E t \in TripIds, leg \in LegInputs : unlinkDriverFromTripLeg(t, leg)
  \/ \E d \in DriverIds : linkTaxiRank(d, 2)
  \/ unlinkTaxiRank(1, 1)
  \/ deleteDriver(1)
  \/ \E t \in TripIdInputs, tn \in TrackingNumbers :
       createParcel(t, 0, tn, "000000", NoParcelRest)
  \/ \E p \in ParcelIds : updateParcelStatus(p, "in-transit")
  \/ \E p \in ParcelIds, t \in TripIdInputs, i \in {0, 1} :
       moveParcelLeg(p, t, i)

SpecFrame == Init /\ [][NextFrame]_vars

(***************************************************************************)
(* Overlapping link requests on one trip.                                  *)
(***************************************************************************)
NextConcurrent ==
  \/ NoTripYet /\ \E d \in {2, 3} : createTrip(1, d, NoRest)
  \/ \E id \in TripIds : deleteTrip(id)
  \/ \E d \in DriverIds : linkTaxiRank(d, 2)
  \/ unlinkTaxiRank(1, 1)
  \/ \E r \in Requests, t \in TripIds, leg \in 1..2, d \in DriverIds :
       linkLoadTrip(r, t, leg, d)
  \/ \E r \in Requests : linkLoadDriver(r)
  \/ \E r \in Requests : linkSaveTrip(r)

SpecConcurrent == Init /\ [][NextConcurrent]_vars

(***************************************************************************)
(* Create requests overlapping with changes of the route collection.       *)
(***************************************************************************)
NextSnapshot ==
  \/ \E d \in {2, 3}, rest \in {NoRest, [NoRest EXCEPT
         !.hasRoute = TRUE, !.route = <<SuppliedLeg>>]} :
       createTripFetch(1, 1, d, rest)
  \/ \E r \in Requests : createTripSave(r)
  \/ createRoute(1, 3, 4, 6)
  \/ updateRoute(1, [field |-> "toRank", value |-> NumRanks])
  \/ \E id \in 1..2 : deleteRoute(id)

SpecSnapshot == Init /\ [][NextSnapshot]_vars

(***************************************************************************)
(* The search loop of one create request, iteration by iteration, against  *)
(* every small route collection. The handler runs the loop to its end      *)
(* without yielding, so an enabled step is eventually taken.               *)
(***************************************************************************)
NextSearch ==
  \/ /\ \A q \in Requests : inflight[q] = Idle
     /\ \E origin \in RankInputs, destination \in RankInputs :
          createTripFetch(1, origin, destination, NoRest)
  \/ \E r \in Requests : createTripSearch(r)
  \/ \E r \in Requests :
       /\ createTripSave(r)
       /\ ~LoopRuns(inflight[r].queue, inflight[r].found)

SpecSearch == InitGraph /\ [][NextSearch]_vars /\ WF_vars(NextSearch)

(***************************************************************************)
(* Properties.                                                             *)
(***************************************************************************)
\* The ranks reached from the set S over one more directed edge.
StepRanks(edges, S) ==
  S \cup {edges[i].toRank : i \in {j \in 1..Len(edges) : edges[j].fromRank \in S}}

\* The least number of directed edges from a rank of S to d, -1 when there
\* is no directed path (level-by-level reachability, no queue).
RECURSIVE HopCount(_, _, _, _)
HopCount(edges, S, d, k) ==
  IF d \in S THEN k
  ELSE IF StepRanks(edges, S) = S THEN -1
  ELSE HopCount(edges, StepRanks(edges, S), d, k + 1)

ShortestHops(edges, o, d) == HopCount(edges, {o}, d, 0)

IsDirectedEdge(edges, from, to) ==
  \E i \in 1..Len(edges) : edges[i].fromRank = from /\ edges[i].toRank = to

\* C1: whenever a directed path from origin to destination exists, the
\* create request computes a rank path from origin to destination whose
\* number of hops is the least number of directed edges between them, and
\* every hop of it is a route taken from its fromRank to its toRank.
C1_ShortestHopPath ==
  (resp.op = "createTrip" /\ resp.origin # NoId /\ resp.destination # NoId
     /\ ShortestHops(routes, resp.origin, resp.destination) >= 0)
  => /\ resp.kind = "Created"
     /\ Len(resp.path) >= 1
     /\ resp.path[1] = resp.origin
     /\ resp.path[Len(resp.path)] = resp.destination
     /\ Len(resp.path) - 1 = ShortestHops(routes, resp.origin, resp.destination)
     /\ \A i \in 1..(Len(resp.path) - 1) :
          IsDirectedEdge(routes, resp.path[i], resp.path[i + 1])

\* A two-hop path was computed although the collection also holds a route
\* from the destination straight back to the origin.
C1_Witness ==
  /\ resp.kind = "Created"
  /\ Len(resp.path) = 3
  /\ IsDirectedEdge(routes, resp.path[3], resp.path[1])

\* C2: a create request between ranks that no directed path connects is
\* answered 400 (no route could be generated) and the stored trips are
\* left as they were.
C2_UnreachableRejected ==
  [][(resp'.op = "createTrip" /\ resp'.origin # NoId
        /\ resp'.destination # NoId
        /\ ShortestHops(routes, resp'.origin, resp'.destination) < 0)
     => /\ resp'.status = 400
        /\ resp'.kind = "Unreachable"
        /\ trips' = trips]_vars

\* A request was rejected as unreachable on a non-empty route collection
\* and no trip is stored.
C2_Witness ==
  /\ resp.kind = "Unreachable"
  /\ Len(routes) > 0
  /\ \A id \in TripIds : ~IsStored(trips[id])

\* C3: a link request that names an existing trip, a leg of it whose route
\* resolves and an existing driver assigns the driver exactly when the
\* driver's linkedRanks holds the fromRank of the leg's route; otherwise it
\* is answered 400 (driver not eligible) and the leg keeps its driver.
C3_EligibilityEnforced ==
  [][\A t \in TripIds, leg \in LegInputs, d \in DriverIds :
       (/\ resp'.op = "linkDriverToTripLeg"
        /\ IsStored(trips[t])
        /\ leg \in 1..Len(trips[t].route)
        /\ trips[t].route[leg].details \in RouteIds(routes)
        /\ IsStored(drivers[d])
        /\ linkDriverToTripLeg(t, leg, d))
       => IF FindRoute(routes, trips[t].route[leg].details).fromRank
               \in drivers[d].linkedRanks
          THEN /\ resp'.kind = "Linked"
               /\ resp'.status = 200
               /\ trips'[t].route[leg].driver = d
          ELSE /\ resp'.kind = "DriverNotEligible"
               /\ resp'.status = 400
               /\ trips'[t].route[leg].driver = trips[t].route[leg].driver]_vars

\* A driver was refused as not eligible on a trip that has a leg with a
\* driver assigned by an earlier request.
C3_Witness ==
  /\ resp.op = "linkDriverToTripLeg"
  /\ resp.kind = "DriverNotEligible"
  /\ \E t \in TripIds :
       /\ IsStored(trips[t])
       /\ \E i \in 1..Len(trips[t].route) : trips[t].route[i].driver # NoId

\* C4: the legs of a trip that a create request built from a rank path of
\* length L are numbered 1, 2, ..., L-1 in order, and there are L-1 of them.
C4_LegNumbering ==
  \A id \in TripIds :
    (IsStored(trips[id]) /\ resp.kind = "Created")
    => /\ Len(trips[id].route) = Len(resp.path) - 1
       /\ \A i \in 1..Len(trips[id].route) : trips[id].route[i].leg = i

\* The distance, and the price, of the routes the legs reference.
RECURSIVE ReferencedDistance(_, _)
ReferencedDistance(edges, legs) ==
  IF legs = <<>> THEN 0
  ELSE (IF Head(legs).details \in RouteIds(edges)
        THEN FindRoute(edges, Head(legs).details).distance ELSE 0)
         + ReferencedDistance(edges, Tail(legs))

RECURSIVE ReferencedPrice(_, _)
ReferencedPrice(edges, legs) ==
  IF legs = <<>> THEN 0
  ELSE (IF Head(legs).details \in RouteIds(edges)
        THEN FindRoute(edges, Head(legs).details).price ELSE 0)
         + ReferencedPrice(edges, Tail(legs))

\* C5: right after its creation a trip's fullDistance is the sum of the
\* distances, and its price the sum of the prices, of the routes its legs
\* reference.
C5_AggregatesAtCreation ==
  \A id \in TripIds :
    (IsStored(trips[id]) /\ resp.kind = "Created")
    => /\ trips[id].fullDistance = ReferencedDistance(routes, trips[id].route)
       /\ trips[id].price = ReferencedPrice(routes, trips[id].route)

C7_ParcelLegValid ==
  \A p \in ParcelIds :
    (IsStored(parcels[p]) /\ parcels[p].trip # NoId)
    => /\ parcels[p].trip \in TripIds
       /\ IsStored(trips[parcels[p].trip])
       /\ 0 <= parcels[p].legIndex
       /\ parcels[p].legIndex < Len(trips[parcels[p].trip].route)

\* The legs of a trip are the same sequence of route references and leg
\* numbers before and after a step.
SameLegSequence(before, after) ==
  /\ Len(after.route) = Len(before.route)
  /\ \A i \in 1..Len(before.route) :
       /\ after.route[i].details = before.route[i].details
       /\ after.route[i].leg = before.route[i].leg

\* C8 (as stated): while a trip is stored its origin and destination never
\* change and no leg is added, removed or reordered.
C8_TripImmutable ==
  [][\A id \in TripIds :
       (IsStored(trips[id]) /\ IsStored(trips'[id]))
       => /\ trips'[id].origin = trips[id].origin
          /\ trips'[id].destination = trips[id].destination
          /\ SameLegSequence(trips[id], trips'[id])]_vars

\* C8 (amended): while a trip is stored no leg is added, removed or
\* reordered, and its origin and destination change only by an update
\* request on that trip (which replaces them by the values it supplies).
C8_LegSequenceFixed ==
  [][\A id \in TripIds :
       (IsStored(trips[id]) /\ IsStored(trips'[id]))
       => /\ SameLegSequence(trips[id], trips'[id])
          /\ (trips'[id].origin # trips[id].origin
                \/ trips'[id].destination # trips[id].destination)
             => /\ resp'.op = "updateTrip"
                /\ resp'.kind = "Updated"
                /\ \E o \in RankInputs, d \in RankInputs :
                     updateTrip(id, o, d)]_vars

\* An update request moved the origin of a two-leg trip whose second route
\* has been deleted; its legs are still the two created.
C8_Witness ==
  /\ resp.op = "updateTrip"
  /\ resp.kind = "Updated"
  /\ \E id \in TripIds :
       /\ IsStored(trips[id])
       /\ Len(trips[id].route) = 2
       /\ trips[id].origin = 3
       /\ trips[id].route[2].details \notin RouteIds(routes)

\* C9: while a trip is stored, the details, leg number, associationSplit
\* and driverSplit of each of its legs never change.
C9_LegFieldsFixed ==
  [][\A id \in TripIds :
       (IsStored(trips[id]) /\ IsStored(trips'[id])
          /\ Len(trips'[id].route) = Len(trips[id].route))
       => \A i \in 1..Len(trips[id].route) :
            /\ trips'[id].route[i].details = trips[id].route[i].details
            /\ trips'[id].route[i].leg = trips[id].route[i].leg
            /\ trips'[id].route[i].associationSplit
                 = trips[id].route[i].associationSplit
            /\ trips'[id].route[i].driverSplit
                 = trips[id].route[i].driverSplit]_vars

\* C10: while a trip is stored, the driver of a leg changes only in a step
\* that is a successful link or unlink request addressed to that trip and
\* that leg.
C10_DriverOnlyByLinkUnlink ==
  [][\A id \in TripIds :
       (IsStored(trips[id]) /\ IsStored(trips'[id])
          /\ Len(trips'[id].route) = Len(trips[id].route))
       => \A i \in 1..Len(trips[id].route) :
            trips'[id].route[i].driver # trips[id].route[i].driver
            => \/ /\ resp'.op = "linkDriverToTripLeg"
                  /\ resp'.kind = "Linked"
                  /\ \E d \in DriverIds : linkDriverToTripLeg(id, i, d)
               \/ /\ resp'.op = "unlinkDriverFromTripLeg"
                  /\ resp'.kind = "Unlinked"
                  /\ unlinkDriverFromTripLeg(id, i)]_vars

\* An update request went through on a trip that keeps the driver linked to
\* its first leg, after the split of that leg's route was changed.
C10_Witness ==
  /\ resp.op = "updateTrip"
  /\ resp.kind = "Updated"
  /\ \E id \in TripIds :
       /\ IsStored(trips[id])
       /\ Len(trips[id].route) >= 1
       /\ trips[id].route[1].driver # NoId
       /\ trips[id].route[1].driverSplit = 55

\* C11 (as stated): while a trip is stored its price and fullDistance never
\* change, whatever requests are served.
C11_AggregatesFixed ==
  [][\A id \in TripIds :
       (IsStored(trips[id]) /\ IsStored(trips'[id]))
       => /\ trips'[id].price = trips[id].price
          /\ trips'[id].fullDistance = trips[id].fullDistance]_vars

\* C12: the route, price and fullDistance a create request stores are the
\* values derived from the computed rank path (the mapped legs and the sums
\* over the matched routes), whatever other fields the request body holds.
C12_BodyFieldsIgnored ==
  \A id \in TripIds :
    (IsStored(trips[id]) /\ resp.kind = "Created")
    => /\ trips[id].route = MappedRoute(routes, resp.path)
       /\ trips[id].price = SumPrice(routes, resp.path, 1)
       /\ trips[id].fullDistance = SumDistance(routes, resp.path, 1)

\* C18: a create request whose origin equals its destination computes the
\* one-rank path and stores a trip with no legs, fullDistance 0 and price 0,
\* whatever routes leave that rank.
C18_SameRankTrip ==
  \A id \in TripIds :
    (IsStored(trips[id]) /\ resp.kind = "Created"
       /\ resp.origin = resp.destination)
    => /\ resp.path = <<resp.origin>>
       /\ trips[id].route = <<>>
       /\ trips[id].fullDistance = 0
       /\ trips[id].price = 0

\* The trip after differs from the trip before in nothing but the driver of
\* leg number leg, which is d.
OnlyLegDriverSet(before, after, leg, d) ==
  /\ after.state = before.state
  /\ after.origin = before.origin
  /\ after.destination = before.destination
  /\ after.price = before.price
  /\ after.fullDistance = before.fullDistance
  /\ Len(after.route) = Len(before.route)
  /\ \A j \in 1..Len(before.route) :
       IF j = leg
       THEN /\ after.route[j].driver = d
            /\ after.route[j].leg = before.route[j].leg
            /\ after.route[j].details = before.route[j].details
            /\ after.route[j].driverSplit = before.route[j].driverSplit
            /\ after.route[j].associationSplit = before.route[j].associationSplit
       ELSE after.route[j] = before.route[j]

C15_MissingTripContext ==
  [][\A p \in ParcelIds, i \in LegIndexInputs :
       (/\ resp'.op = "moveParcelLeg"
        /\ IsStored(parcels[p])
        /\ parcels[p].trip = NoId
        /\ moveParcelLeg(p, NoId, i))
       => /\ resp'.status = 400
          /\ (i # Undef /\ i >= 0) => resp'.kind = "MissingTripContext"
          /\ parcels' = parcels]_vars

\* A move was refused for want of a trip although a trip with legs is
\* stored that a tripId could have named.
C15_Witness ==
  /\ resp.op = "moveParcelLeg"
  /\ resp.kind = "MissingTripContext"
  /\ \E p \in ParcelIds : IsStored(parcels[p]) /\ parcels[p].trip = NoId
  /\ \E t \in TripIds : IsStored(trips[t]) /\ Len(trips[t].route) >= 1

\* C17: while a parcel is stored, its trip and its legIndex change only in
\* a step that is a successful move request.
C17_OnlyMoveRebinds ==
  [][\A p \in ParcelIds :
       (/\ IsStored(parcels[p])
        /\ IsStored(parcels'[p])
        /\ \/ parcels'[p].trip # parcels[p].trip
           \/ parcels'[p].legIndex # parcels[p].legIndex)
       => /\ resp'.op = "moveParcelLeg"
          /\ resp'.kind = "Moved"]_vars

\* The first of the five preconditions of a link request that fails, in the
\* order trip exists, leg number within 1..number of legs, leg has route
\* details, driver exists, driver eligible.
FirstFailingPrecondition(t, leg, d) ==
  IF ~TripExists(t) THEN "TripNotFound"
  ELSE IF leg \notin 1..Len(trips[t].route) THEN "InvalidLegNumber"
  ELSE IF trips[t].route[leg].details \notin RouteIds(routes)
       THEN "LegHasNoRouteDetails"
  ELSE IF ~DriverExists(d) THEN "DriverNotFound"
  ELSE IF FindRoute(routes, trips[t].route[leg].details).fromRank
            \notin drivers[d].linkedRanks
       THEN "DriverNotEligible"
  ELSE "Linked"

\* C19: a link request that names a trip id, a driver id and any integer
\* leg number (0 and negative numbers included) is answered by the first
\* failing precondition, each failure by an answer of its own.
C19_FirstFailureReported ==
  [][\A t \in TripIds, leg \in LegInputs, d \in DriverIds :
       (/\ resp'.op = "linkDriverToTripLeg"
        /\ linkDriverToTripLeg(t, leg, d))
       => resp'.kind = FirstFailingPrecondition(t, leg, d)]_vars

\* Request r has been answered with success.
LinkSucceeded(r) == inflight[r].pc = "done" /\ inflight[r].kind = "Linked"

\* C20: when two link requests addressed to different legs of the same
\* trip have both been answered with success, however their steps were
\* interleaved, the stored trip has both drivers on their legs (as long as
\* no further request has written either leg).
C20_BothAssignmentsKept ==
  \A r1 \in Requests, r2 \in Requests :
    (/\ r1 # r2
     /\ LinkSucceeded(r1)
     /\ LinkSucceeded(r2)
     /\ inflight[r1].tripId = inflight[r2].tripId
     /\ inflight[r1].leg # inflight[r2].leg
     /\ IsStored(trips[inflight[r1].tripId])
     /\ \A r3 \in Requests \ {r1, r2} :
          ~(/\ LinkSucceeded(r3)
            /\ inflight[r3].tripId = inflight[r1].tripId
            /\ inflight[r3].leg \in {inflight[r1].leg, inflight[r2].leg}))
    => LET trip == trips[inflight[r1].tripId] IN
       /\ trip.route[inflight[r1].leg].driver = inflight[r1].driverId
       /\ trip.route[inflight[r2].leg].driver = inflight[r2].driverId

\* Two requests for the two legs of one trip both succeeded although each
\* had loaded the trip before the other saved it: neither loaded document
\* shows the other's driver, the stored trip shows both.
C20_Witness ==
  \E r1 \in Requests, r2 \in Requests :
    /\ LinkSucceeded(r1)
    /\ LinkSucceeded(r2)
    /\ inflight[r1].tripId = inflight[r2].tripId
    /\ inflight[r1].leg = 1
    /\ inflight[r2].leg = 2
    /\ inflight[r1].trip.route[2].driver = NoId
    /\ inflight[r2].trip.route[1].driver = NoId
    /\ IsStored(trips[inflight[r1].tripId])
    /\ trips[inflight[r1].tripId].route[1].driver = inflight[r1].driverId
    /\ trips[inflight[r1].tripId].route[2].driver = inflight[r2].driverId

RECURSIVE SumOverFirstRoutes(_, _, _, _)
SumOverFirstRoutes(edges, path, idx, field) ==
  IF idx >= Len(path) THEN 0
  ELSE LET edge == FirstRouteBetween(edges, path[idx], path[idx + 1]) IN
       (IF field = "price" THEN edge.price ELSE edge.distance)
         + SumOverFirstRoutes(edges, path, idx + 1, field)

\* C21: when several routes go from the same rank to the same rank, the leg
\* a create request builds for that pair references the first of them in
\* the order of the fetched list, takes its splits from it, and the trip's
\* price and fullDistance are summed over those first routes.
C21_FirstParallelRoute ==
  \A id \in TripIds :
    (IsStored(trips[id]) /\ resp.kind = "Created")
    => /\ Len(trips[id].route) = Len(resp.path) - 1
       /\ \A i \in 1..Len(trips[id].route) :
            LET first == FirstRouteBetween(routes, resp.path[i], resp.path[i + 1])
            IN /\ trips[id].route[i].details = first.id
               /\ trips[id].route[i].driverSplit = first.driverSplit
               /\ trips[id].route[i].associationSplit = first.associationSplit
       /\ trips[id].price = SumOverFirstRoutes(routes, resp.path, 1, "price")
       /\ trips[id].fullDistance
            = SumOverFirstRoutes(routes, resp.path, 1, "distance")

\* C24: every leg of a trip a create request has just stored carries the
\* associationSplit and driverSplit of the route it references as that route
\* is at that moment (0 for a split the route does not have), and no driver.
C24_LegsCarryRouteSplits ==
  \A id \in TripIds :
    (IsStored(trips[id]) /\ resp.op = "createTrip" /\ resp.kind = "Created")
    => \A i \in 1..Len(trips[id].route) :
         LET leg == trips[id].route[i] IN
         /\ leg.driver = NoId
         /\ leg.details \in RouteIds(routes)
         /\ leg.associationSplit
              = OrZero(FindRoute(routes, leg.details).associationSplit)
         /\ leg.driverSplit
              = OrZero(FindRoute(routes, leg.details).driverSplit)

\* C27: a trip a create request has just stored with at least one leg has a
\* route behind every leg; the first leg's route starts at the trip's
\* origin, the last leg's route ends at its destination, and each route ends
\* where the next one starts.
C27_LegsChainOriginToDestination ==
  \A id \in TripIds :
    (/\ IsStored(trips[id])
     /\ resp.op = "createTrip" /\ resp.kind = "Created"
     /\ Len(trips[id].route) >= 1)
    => LET legs == trips[id].route
           RouteOf(i) == FindRoute(routes, legs[i].details)
       IN /\ \A i \in 1..Len(legs) : legs[i].details \in RouteIds(routes)
          /\ RouteOf(1).fromRank = trips[id].origin
          /\ RouteOf(Len(legs)).toRank = trips[id].destination
          /\ \A i \in 1..(Len(legs) - 1) :
               RouteOf(i).toRank = RouteOf(i + 1).fromRank

\* The sum of one field over the routes the legs reference, each leg's
\* route counted once; a leg whose route is gone adds nothing.
RECURSIVE ReferencedSum(_, _, _)
ReferencedSum(edges, legs, field) ==
  IF legs = <<>> THEN 0
  ELSE (IF HasDetails(edges, Head(legs))
        THEN LET pr == FindRoute(edges, Head(legs).details) IN
             IF field = "price" THEN pr.price ELSE pr.distance
        ELSE 0)
       + ReferencedSum(edges, Tail(legs), field)

\* C26: an update request that succeeds leaves the trip with price equal to
\* the sum of the current prices, and fullDistance equal to the sum of the
\* current distances, of the routes its legs reference, each route counted
\* once, whatever the distances and prices are (0 included).
C26_UpdateRecomputesAggregates ==
  [][\A id \in TripIds :
       (/\ resp'.op = "updateTrip" /\ resp'.kind = "Updated"
        /\ IsStored(trips[id])
        /\ \E o \in RankInputs, d \in RankInputs : updateTrip(id, o, d))
       => /\ trips'[id].price
              = ReferencedSum(routes, trips'[id].route, "price")
          /\ trips'[id].fullDistance
              = ReferencedSum(routes, trips'[id].route, "distance")]_vars

\* The stage that follows a status in the parcel lifecycle.
NextStage(status) ==
  CASE status = "awaiting-pickup" -> "in-transit"
    [] status = "in-transit" -> "delivered"
    [] status = "delivered" -> "received"
    [] OTHER -> "none"

\* C22: the status of a stored parcel is always one of the four lifecycle
\* values, and every step that changes it moves it to the stage right after
\* the one it had: no step moves it backward or skips a stage.
C22_StatusAdvancesOneStage ==
  [][\A p \in ParcelIds :
       (IsStored(parcels[p]) /\ IsStored(parcels'[p]))
       => /\ parcels'[p].status \in ParcelStatuses
          /\ \/ parcels'[p].status = parcels[p].status
             \/ parcels'[p].status = NextStage(parcels[p].status)]_vars

\* C23: the parcel a create request stores has the trackingNumber and the
\* receiverOtp the server generated for that request and the status
\* awaiting-pickup, whatever trackingNumber, receiverOtp or status the
\* request body carries.
C23_ParcelFieldsServerGenerated ==
  [][\A t \in {NoId, 1}, i \in {Undef, 0}, tn \in TrackingNumbers,
        otp \in Otps, rest \in ParcelRestInputs :
       (/\ resp'.op = "createParcel" /\ resp'.kind = "Created"
        /\ createParcel(t, i, tn, otp, rest))
       => /\ parcels'[FreshParcelId].trackingNumber = tn
          /\ parcels'[FreshParcelId].receiverOtp = otp
          /\ parcels'[FreshParcelId].status = "awaiting-pickup"]_vars

\* C28 (as stated): in every state, each leg that has a driver has a stored
\* driver whose linkedRanks holds the fromRank of the leg's route.
C28_AssignedDriverEligible ==
  \A t \in TripIds :
    IsStored(trips[t])
    => \A i \in 1..Len(trips[t].route) :
         LET leg == trips[t].route[i] IN
         leg.driver # NoId
         => /\ DriverExists(leg.driver)
            /\ HasDetails(routes, leg)
            /\ FindRoute(routes, leg.details).fromRank
                 \in drivers[leg.driver].linkedRanks

\* C28 (amended): a step puts a driver on a leg of a stored trip only when,
\* before the step, that driver is stored and its linkedRanks holds the
\* fromRank of the leg's route.
C28_EligibleWhenAssigned ==
  [][\A t \in TripIds :
       (IsStored(trips[t]) /\ IsStored(trips'[t]))
       => \A i \in 1..Len(trips'[t].route) :
            (/\ i <= Len(trips[t].route)
             /\ trips'[t].route[i].driver # NoId
             /\ trips'[t].route[i].driver # trips[t].route[i].driver)
            => LET d == trips'[t].route[i].driver IN
               /\ DriverExists(d)
               /\ HasDetails(routes, trips[t].route[i])
               /\ FindRoute(routes, trips[t].route[i].details).fromRank
                    \in drivers[d].linkedRanks]_vars

\* A leg carries a stored driver that is no longer linked to the fromRank
\* of the leg's route, which still resolves.
C28_Witness ==
  \E t \in TripIds :
    /\ IsStored(trips[t])
    /\ \E i \in 1..Len(trips[t].route) :
         LET leg == trips[t].route[i] IN
         /\ leg.driver # NoId
         /\ DriverExists(leg.driver)
         /\ HasDetails(routes, leg)
         /\ FindRoute(routes, leg.details).fromRank
              \notin drivers[leg.driver].linkedRanks

\* C29: a link request on a leg whose route has been deleted is answered
\* 400 as a validation failure, whichever driver it names, and assigns
\* nothing.
C29_DanglingLegRejected ==
  [][\A t \in TripIds, leg \in LegInputs, d \in DriverIdInputs :
       (/\ resp'.op = "linkDriverToTripLeg"
        /\ IsStored(trips[t])
        /\ leg \in 1..Len(trips[t].route)
        /\ trips[t].route[leg].details # NoId
        /\ trips[t].route[leg].details \notin RouteIds(routes)
        /\ linkDriverToTripLeg(t, leg, d))
       => /\ resp'.status = 400
          /\ resp'.kind \in {"LegHasNoRouteDetails", "ValidationError"}
          /\ trips' = trips]_vars

\* A link request naming a stored driver linked to rank 1 was refused on a
\* leg whose route is gone.
C29_Witness ==
  /\ resp.op = "linkDriverToTripLeg"
  /\ resp.kind = "LegHasNoRouteDetails"
  /\ resp.status = 400
  /\ \E t \in TripIds :
       /\ IsStored(trips[t])
       /\ \E i \in 1..Len(trips[t].route) :
            /\ trips[t].route[i].details # NoId
            /\ trips[t].route[i].details \notin RouteIds(routes)
            /\ trips[t].route[i].driver = NoId
  /\ \E d \in DriverIds : IsStored(drivers[d]) /\ 1 \in drivers[d].linkedRanks

\* C25: the trip a create request has stored was computed on the one edge
\* list the request fetched, whatever route requests were served between
\* the fetch and the save: its path is the path the search finds on that
\* list, and leg i references a route of that list that goes from rank i
\* of the path to rank i + 1.
C25_LegsFromOneSnapshot ==
  \A r \in Requests :
    (/\ inflight[r].pc = "answered"
     /\ inflight[r].kind = "Created"
     /\ IsStored(trips[inflight[r].tripId]))
    => LET req == inflight[r]
           legs == trips[req.tripId].route
           search == Bfs(<<req.origin>>, (req.origin :> NoId),
                         req.destination, Adjacency(req.edges))
       IN /\ search.found
          /\ req.path = PathRanks(req.destination, search.prev, <<>>)
          /\ Len(legs) = Len(req.path) - 1
          /\ \A i \in 1..Len(legs) :
               /\ legs[i].details \in RouteIds(req.edges)
               /\ FindRoute(req.edges, legs[i].details).fromRank = req.path[i]
               /\ FindRoute(req.edges, legs[i].details).toRank
                    = req.path[i + 1]

\* No rank occurs twice among the ranks a search has pushed.
EnqueuedAtMostOnce(req) ==
  \A i \in 1..Len(req.enqueued), j \in 1..Len(req.enqueued) :
    req.enqueued[i] = req.enqueued[j] => i = j

\* A search whose loop has ended has dequeued the destination or emptied
\* its queue.
EndedOnGoalOrEmpty(req) ==
  ~LoopRuns(req.queue, req.found)
  => \/ req.found /\ req.current = req.destination
     \/ ~req.found /\ req.queue = <<>>

\* C30: the search of a create request pushes each rank at most once, its
\* loop ends only with the destination dequeued or the queue empty, and on
\* every route collection (cycles, self-loops and parallel routes included)
\* the request is eventually answered.
C30_SearchTerminates ==
  /\ [](\A r \in Requests :
         inflight[r].pc = "fetched"
         => /\ EnqueuedAtMostOnce(inflight[r])
            /\ EndedOnGoalOrEmpty(inflight[r]))
  /\ \A r \in Requests :
       (inflight[r].pc = "fetched") ~> (inflight[r].pc = "answered")

\* A search was answered unreachable on a route collection with a
\* self-loop, a two-rank cycle and nothing into the destination, after it
\* had pushed two ranks.
C30_Witness ==
  \E r \in Requests :
    LET req == inflight[r] IN
    /\ req.pc = "answered"
    /\ req.kind = "Unreachable"
    /\ Len(req.enqueued) = 2
    /\ \E i \in 1..Len(req.edges) : req.edges[i].fromRank = req.edges[i].toRank
    /\ \E i \in 1..Len(req.edges), j \in 1..Len(req.edges) :
         /\ req.edges[i].fromRank # req.edges[i].toRank
         /\ req.edges[i].fromRank = req.edges[j].toRank
         /\ req.edges[i].toRank = req.edges[j].fromRank

====
